---- MODULE Spec2Model ----
(***************************************************************************)
(* A model of package tyson (src/tyson.go): the optional container Node,   *)
(* the Mappers and their combinators All and One, Map, and the Object      *)
(* with its key traversal Get, its typed getters and Has / Set / Remove.   *)
(*                                                                         *)
(* Go values are modelled as records [t, v]: t is the (dynamic) Go type    *)
(* of the value and v its payload.  Maps are reference values in Go: the   *)
(* payload of a map[string]any or of an Object is an address in heap, and  *)
(* heap[a] is the content of the map at address a.                         *)
(***************************************************************************)
EXTENDS Integers, Sequences, FiniteSets, TLC

VARIABLES
    heap,   \* the maps in memory: address -> (function from present keys to values)
    arch,   \* how this build converts an out-of-range float64 to int64
    input,  \* the arguments drawn for the calls of a pure function
    call,   \* the last call made by the client, with its arguments and results
    held    \* a Node that the client keeps, and what it showed when returned

vars == <<heap, arch, input, call, held>>

(***************************************************************************)
(* Bounds of the model.                                                    *)
(***************************************************************************)
MaxKeys == 3      \* longest key list passed to a getter
MaxMaps == 2      \* maps ever allocated by a client that mutates its Object
MaxArr == 2       \* longest []any drawn as an input
FracBits == 2     \* a float64 is a multiple of 2^-FracBits ...
MantBits == 8     \* ... with a significand of MantBits bits (53 in Go)
MaxExp == 5       \* largest binary exponent of a float64 drawn as an input

IntBits == MantBits + 2   \* width of int64: as in Go, MaxInt64 needs more
                          \* bits than a float64 significand has

Keys == {"a", "b"}

RECURSIVE Pow2(_)
Pow2(n) == IF n = 0 THEN 1 ELSE 2 * Pow2(n - 1)

Unit == Pow2(FracBits)             \* the float64 1.0, in model units
MaxInt64 == Pow2(IntBits - 1) - 1
MinInt64 == -Pow2(IntBits - 1)

Abs(x) == IF x < 0 THEN -x ELSE x

(***************************************************************************)
(* Go values.                                                              *)
(***************************************************************************)
NilRef == -1      \* the nil map

GoVal(t, v) == [t |-> t, v |-> v]

NilAny == GoVal("nil", 0)                     \* the nil interface (JSON null)
BoolVal(b) == GoVal("bool", b)
FloatVal(x) == GoVal("float64", x)               \* x in units of 2^-FracBits
IntVal(n) == GoVal("int64", n)
StringVal(s) == GoVal("string", s)
MapVal(a) == GoVal("map[string]any", a)       \* an unnamed map, as decoded
ObjectVal(a) == GoVal("Object", a)            \* the defined type tyson.Object
\* A slice is nil or has elements; SliceOf("[]any", <<...>>) is a non-nil one.
SliceOf(t, s) == GoVal(t, [nil |-> FALSE, elems |-> s])
NilSlice(t) == GoVal(t, [nil |-> TRUE, elems |-> <<>>])

\* The zero value of a Go type: *new(T).
Zero(T) ==
    CASE T = "any" -> NilAny
      [] T = "bool" -> BoolVal(FALSE)
      [] T = "float64" -> FloatVal(0)
      [] T = "int64" -> IntVal(0)
      [] T = "string" -> StringVal("")
      [] T = "Object" -> ObjectVal(NilRef)
      [] OTHER -> NilSlice(T)

(***************************************************************************)
(* Node[T]: the two implementations empty[T] and value[T].                 *)
(***************************************************************************)
EmptyNode(T) == [kind |-> "empty", T |-> T]
ValueNode(v) == [kind |-> "value", value |-> v]

Empty(n) == n.kind = "empty"
Value(n) == IF n.kind = "empty" THEN Zero(n.T) ELSE n.value
Or(n, d) == IF n.kind = "empty" THEN d ELSE n.value

\* OrGet that calls the supplier before it looks at the Node.
OrGetRun_Eager(n, f) ==
    IF n.kind = "empty"
    THEN [ret |-> f, invoked |-> 1]
    ELSE [ret |-> n.value, invoked |-> 1]

\* OrGet with the supplier f given as the value it returns: the result, and
\* how often f was invoked.
OrGetRun(n, f) ==
    IF n.kind = "empty"
    THEN [ret |-> f, invoked |-> 1]
    ELSE [ret |-> n.value, invoked |-> 0]

OrGet(n, f) == OrGetRun(n, f).ret

(***************************************************************************)
(* The default mappers.  A mapper returns [w, ok]; a failed type assertion *)
(* leaves w the zero value of the target type.                             *)
(***************************************************************************)
TypeAssertion(v, t) ==
    IF v.t = t THEN [w |-> v, ok |-> TRUE] ELSE [w |-> Zero(t), ok |-> FALSE]

AsArray(v) == TypeAssertion(v, "[]any")
AsBool(v) == TypeAssertion(v, "bool")
AsFloat(v) == TypeAssertion(v, "float64")
AsString(v) == TypeAssertion(v, "string")

\* v.(map[string]any), assigned to a result of type Object: only a value
\* whose dynamic type is the unnamed map type passes the assertion.
AsObject(v) ==
    IF v.t = "map[string]any"
    THEN [w |-> ObjectVal(v.v), ok |-> TRUE]
    ELSE [w |-> Zero("Object"), ok |-> FALSE]

(***************************************************************************)
(* The conversions of AsInt.  A float64 is an integer number of units of   *)
(* 2^-FracBits whose magnitude has at most MantBits significant bits.      *)
(***************************************************************************)
\* The number of bits of n >= 0.
RECURSIVE BitLen(_)
BitLen(n) == IF n = 0 THEN 0 ELSE 1 + BitLen(n \div 2)

IsFloat64(x) ==
    \E e \in 0..MaxExp + FracBits + 2 :
        Abs(x) % Pow2(e) = 0 /\ Abs(x) \div Pow2(e) < Pow2(MantBits)

\* The builds differ in int64(v) when v is outside the range of int64 (the
\* result is implementation-dependent in Go): "indefinite" is the build
\* whose conversion instruction answers the smallest int64 then (amd64),
\* "saturating" the one that answers the nearest int64 (arm64).
Archs == {"indefinite", "saturating"}

\* int64(v) for a v whose truncation towards zero is t.
Int64Of(t) ==
    IF MinInt64 <= t /\ t <= MaxInt64 THEN t
    ELSE IF arch = "saturating" /\ t > 0 THEN MaxInt64
    ELSE MinInt64

\* int64(v): v truncated towards zero.
ToInt64(x) == Int64Of(IF x >= 0 THEN x \div Unit ELSE -((-x) \div Unit))

\* n >= 0 with its e lowest bits rounded away, ties to the even significand.
RoundBits(n, e) ==
    IF \/ 2 * (n % Pow2(e)) > Pow2(e)
       \/ 2 * (n % Pow2(e)) = Pow2(e) /\ (n \div Pow2(e)) % 2 = 1
    THEN (n \div Pow2(e) + 1) * Pow2(e)
    ELSE (n \div Pow2(e)) * Pow2(e)

\* n >= 0 rounded to the nearest float64.
RoundFloat64(n) ==
    RoundBits(n, IF BitLen(n) > MantBits THEN BitLen(n) - MantBits ELSE 0)

\* float64(w): w rounded to the nearest float64.
ToFloat64(w) ==
    IF w < 0 THEN -RoundFloat64(-w * Unit) ELSE RoundFloat64(w * Unit)

\* func AsInt(v float64) (w int64, ok bool)
AsInt(v) ==
    [w |-> IntVal(ToInt64(v.v)), ok |-> v.v = ToFloat64(ToInt64(v.v))]

(***************************************************************************)
(* Mappers as values.  A Mapper[S, T] is a record: fn names the function,  *)
(* and the closures built by All and One carry what they captured.  A      *)
(* mapper written by the client is [fn |-> "func", T |-> its result type,  *)
(* table |-> the function from its inputs to the [w, ok] it answers].      *)
(***************************************************************************)
Builtin(fn) == [fn |-> fn]

\* func All(m Mapper[S, T]) Mapper[[]S, []T]
All(m) == [fn |-> "All", m |-> m]

\* func One(mappers ...Mapper[S, T]) Mapper[S, T]
One(mappers, T) == [fn |-> "One", mappers |-> mappers, T |-> T]

\* The type T a Mapper[S, T] maps to.
RECURSIVE Target(_)
Target(m) ==
    CASE m.fn = "AsArray" -> "[]any"
      [] m.fn = "AsBool" -> "bool"
      [] m.fn = "AsFloat" -> "float64"
      [] m.fn = "AsInt" -> "int64"
      [] m.fn = "AsObject" -> "Object"
      [] m.fn = "AsString" -> "string"
      [] m.fn = "All" -> "[]" \o Target(m.m)
      [] OTHER -> m.T

\* m(v): what the mapper m answers on v, [w, ok], and for the closures of
\* All and One also applied, the applications of their mappers.
RECURSIVE Apply(_, _)

\* One turn of the loop of the closure of All: r is what m answered on v[i].
RECURSIVE AllLoop(_, _, _, _, _)
AllStep(m, v, i, w, applied, r) ==
    IF r.ok
    THEN AllLoop(m, v, i + 1, [w EXCEPT ![i] = r.w], Append(applied, i))
    ELSE [w |-> [nil |-> TRUE, elems |-> <<>>], ok |-> FALSE,
          applied |-> Append(applied, i)]

\* The loop of the closure of All over the elements of v from index i on; w
\* is the result slice filled so far (make([]T, len(v)) at the start) and
\* applied the indices of the elements m was applied to.
AllLoop(m, v, i, w, applied) ==
    IF i > Len(v)
    THEN [w |-> [nil |-> FALSE, elems |-> w], ok |-> TRUE, applied |-> applied]
    ELSE AllStep(m, v, i, w, applied, Apply(m, v[i]))

\* What the closure of All answers, a slice of type T, from its loop's r.
AllResult(T, r) == [w |-> GoVal(T, r.w), ok |-> r.ok, applied |-> r.applied]

\* The closure of All answering the slice with its zero values when m fails.
AllRun_Partial(m, v) ==
    AllResult("[]" \o Target(m),
              [AllLoop(m, v.v.elems, 1,
                       [i \in 1..Len(v.v.elems) |-> Zero(Target(m))], <<>>)
                 EXCEPT !.w = IF @.nil
                              THEN [nil |-> FALSE,
                                    elems |-> [i \in 1..Len(v.v.elems) |->
                                                    Zero(Target(m))]]
                              ELSE @])

\* All(m)(v), for a slice v.
AllRun(m, v) ==
    AllResult("[]" \o Target(m),
              AllLoop(m, v.v.elems, 1,
                      [i \in 1..Len(v.v.elems) |-> Zero(Target(m))], <<>>))

\* One turn of the loop of the closure of One: r is what mappers[i] answered.
RECURSIVE OneLoop(_, _, _, _, _, _)
OneStep(mappers, v, i, applied, r) ==
    IF r.ok
    THEN [w |-> r.w, ok |-> r.ok, applied |-> Append(applied, i)]
    ELSE OneLoop(mappers, v, i + 1, r.w, r.ok, Append(applied, i))

\* The loop of the closure of One over the mappers from index i on; w and ok
\* are the named results so far and applied the indices of the mappers tried.
OneLoop(mappers, v, i, w, ok, applied) ==
    IF i > Len(mappers)
    THEN [w |-> w, ok |-> ok, applied |-> applied]
    ELSE OneStep(mappers, v, i, applied, Apply(mappers[i], v))

\* The closure of One without the break: every mapper is tried.
RECURSIVE OneLoop_NoBreak(_, _, _, _, _, _)
OneLoop_NoBreak(mappers, v, i, w, ok, applied) ==
    IF i > Len(mappers)
    THEN [w |-> w, ok |-> ok, applied |-> applied]
    ELSE OneLoop_NoBreak(mappers, v, i + 1, Apply(mappers[i], v).w,
                         Apply(mappers[i], v).ok, Append(applied, i))

OneRun_NoBreak(mappers, T, v) == OneLoop_NoBreak(mappers, v, 1, Zero(T), FALSE, <<>>)

\* One(mappers...)(v), the mappers mapping to type T.
OneRun(mappers, T, v) == OneLoop(mappers, v, 1, Zero(T), FALSE, <<>>)

Apply(m, v) ==
    CASE m.fn = "AsArray" -> AsArray(v)
      [] m.fn = "AsBool" -> AsBool(v)
      [] m.fn = "AsFloat" -> AsFloat(v)
      [] m.fn = "AsInt" -> AsInt(v)
      [] m.fn = "AsObject" -> AsObject(v)
      [] m.fn = "AsString" -> AsString(v)
      [] m.fn = "All" -> AllRun(m.m, v)
      [] m.fn = "One" -> OneRun(m.mappers, m.T, v)
      [] m.fn = "func" -> m.table[v]

\* Map that keeps what the mapper answered whether or not it succeeded.
MapRun_IgnoresOk(n, m) ==
    IF ~Empty(n)
    THEN [node |-> ValueNode(Apply(m, Value(n)).w), applied |-> <<Value(n)>>]
    ELSE [node |-> EmptyNode(Target(m)), applied |-> <<>>]

\* The Node that Map returns when m, which maps to type T, answered r.
Mapped(r, T) == IF r.ok THEN ValueNode(r.w) ELSE EmptyNode(T)

\* func Map(n Node[S], m Mapper[S, T]) Node[T]: the Node returned, and the
\* values m was applied to.
MapRun(n, m) ==
    IF ~Empty(n)
    THEN [node |-> Mapped(Apply(m, Value(n)), Target(m)), applied |-> <<Value(n)>>]
    ELSE [node |-> EmptyNode(Target(m)), applied |-> <<>>]

Map(n, m) == MapRun(n, m).node

(***************************************************************************)
(* Object.                                                                 *)
(***************************************************************************)
\* o[k] in Go: reading a nil map finds no key.
Lookup(o, k) ==
    IF o.v # NilRef /\ k \in DOMAIN heap[o.v]
    THEN [v |-> heap[o.v][k], ok |-> TRUE]
    ELSE [v |-> NilAny, ok |-> FALSE]

\* get with a JSON null taken for a missing key.
get_NullIsAbsent(o, k) ==
    LET r == Lookup(o, k)
    IN  IF r.ok /\ r.v # NilAny THEN ValueNode(r.v) ELSE EmptyNode("any")

\* get with the ok of the map read ignored.
get_IgnoresOk(o, k) == ValueNode(Lookup(o, k).v)

\* func (o Object) get(k string) Node[any]
get(o, k) ==
    LET r == Lookup(o, k)
    IN  IF r.ok THEN ValueNode(r.v) ELSE EmptyNode("any")

\* One turn of the loop of Get: m is the Node[Object] that Map returned for
\* keys[i].
RECURSIVE GetLoop(_, _, _, _)
GetStep_NoBreak(m, i, keys, looked) == GetLoop(m, i + 1, keys, looked)

GetStep(m, i, keys, looked) ==
    IF Empty(m)
    THEN [n |-> m, i |-> i, looked |-> looked]
    ELSE GetLoop(m, i + 1, keys, looked)

\* The loop of Get: n is the Node[Object] reached and i the (0-based) index
\* of the next key; looked lists the map reads made so far, as <<map, key>>.
GetLoop(n, i, keys, looked) ==
    IF i < Len(keys) - 1
    THEN GetStep(Map(get(Value(n), keys[i + 1]), Builtin("AsObject")), i, keys,
                 Append(looked, <<Value(n).v, keys[i + 1]>>))
    ELSE [n |-> n, i |-> i, looked |-> looked]

\* return n.Value().get(keys[i]), for the n and i that the loop r ended
\* with; keys[i] panics when i is no index of keys.
GetLast(r, keys) ==
    IF r.i < Len(keys)
    THEN [node |-> get(Value(r.n), keys[r.i + 1]),
          looked |-> Append(r.looked, <<Value(r.n).v, keys[r.i + 1]>>),
          panicked |-> FALSE]
    ELSE [node |-> EmptyNode("any"), looked |-> r.looked, panicked |-> TRUE]

\* func (o Object) Get(keys ...string) Node[any]: the Node returned, the map
\* reads made, and whether the call panicked (an index out of range).
GetRun(o, keys) ==
    CASE Len(keys) = 0 ->
            [node |-> ValueNode(o), looked |-> <<>>, panicked |-> FALSE]
      [] Len(keys) = 1 ->
            [node |-> get(o, keys[1]), looked |-> <<<<o.v, keys[1]>>>>,
             panicked |-> FALSE]
      [] OTHER -> GetLast(GetLoop(ValueNode(o), 0, keys, <<>>), keys)

Get(o, keys) == GetRun(o, keys).node

\* func (o Object) Has(k string) bool
Has(o, k) == Lookup(o, k).ok

\* An assignment that inserts a new key and leaves a present one alone.
MapAssign_InsertOnly(m, k, v) ==
    [j \in DOMAIN m \cup {k} |-> IF j \in DOMAIN m THEN m[j] ELSE v]

\* o[k] = v on the content m of a map.
MapAssign(m, k, v) ==
    [j \in DOMAIN m \cup {k} |-> IF j = k THEN v ELSE m[j]]

\* delete(o, k) on the content m of a map.
MapDelete(m, k) == [j \in DOMAIN m \ {k} |-> m[j]]

\* Basic type getters
GetArray(o, keys) == Map(Get(o, keys), Builtin("AsArray"))
GetBool(o, keys) == Map(Get(o, keys), Builtin("AsBool"))
GetFloat(o, keys) == Map(Get(o, keys), Builtin("AsFloat"))
GetInt(o, keys) == Map(GetFloat(o, keys), Builtin("AsInt"))
GetObject(o, keys) == Map(Get(o, keys), Builtin("AsObject"))
GetString(o, keys) == Map(Get(o, keys), Builtin("AsString"))

\* GetBools with the keys left out of the call of GetArray.
GetBools_DropsKeys(o, keys) == Map(GetArray(o, <<>>), All(Builtin("AsBool")))

\* Array type getters
GetArrays(o, keys) == Map(GetArray(o, keys), All(Builtin("AsArray")))
GetBools(o, keys) == Map(GetArray(o, keys), All(Builtin("AsBool")))
GetFloats(o, keys) == Map(GetArray(o, keys), All(Builtin("AsFloat")))
GetInts(o, keys) == Map(GetFloats(o, keys), All(Builtin("AsInt")))
GetObjects(o, keys) == Map(GetArray(o, keys), All(Builtin("AsObject")))
GetStrings(o, keys) == Map(GetArray(o, keys), All(Builtin("AsString")))

(***************************************************************************)
(* The client of the package: it holds the root Object (address 0), may    *)
(* hold a nil Object, and reaches the nested maps through GetObject.       *)
(***************************************************************************)
Addrs == DOMAIN heap
Root == ObjectVal(0)
NilObject == Zero("Object")

Objects == {ObjectVal(a) : a \in Addrs}

RECURSIVE SeqsUpTo(_, _)
SeqsUpTo(S, n) ==
    IF n = 0 THEN {<<>>}
    ELSE LET shorter == SeqsUpTo(S, n - 1)
         IN  shorter \cup {Append(s, x) : s \in {t \in shorter : Len(t) = n - 1}, x \in S}

KeyLists == SeqsUpTo(Keys, MaxKeys)

EmptyMap == [j \in {} |-> NilAny]

\* The scalar values of the trees a client traverses and mutates.
Scalars == {NilAny, StringVal("abc")}

NoInput == [op |-> "none"]
NoCall == [op |-> "none"]
NoHeld == [by |-> "none"]

GetCall(o, keys) ==
    /\ call' = [op |-> "Get", o |-> o, keys |-> keys, run |-> GetRun(o, keys)]
    /\ UNCHANGED <<heap, arch, input, held>>

GetObjectCall(o, keys) ==
    /\ call' = [op |-> "GetObject", o |-> o, keys |-> keys,
                ret |-> GetObject(o, keys)]
    /\ UNCHANGED <<heap, arch, input, held>>

HasCall(o, k) ==
    /\ call' = [op |-> "Has", o |-> o, k |-> k, ret |-> Has(o, k)]
    /\ UNCHANGED <<heap, arch, input, held>>

\* func (o Object) Set(k string, v any): an assignment to an entry of a nil
\* map panics.
Set(o, k, v) ==
    /\ heap' = IF o.v = NilRef THEN heap
               ELSE [heap EXCEPT ![o.v] = MapAssign(@, k, v)]
    /\ call' = [op |-> "Set", o |-> o, k |-> k, v |-> v, panicked |-> o.v = NilRef]
    /\ UNCHANGED <<arch, input, held>>

\* o.Set(k, map[string]any{}): the literal allocates a new, empty map.
SetLiteral(o, k) ==
    LET a == Cardinality(Addrs)
        v == MapVal(a)
    IN  /\ a < MaxMaps
        /\ heap' = [b \in Addrs \cup {a} |->
                        IF b = a THEN EmptyMap
                        ELSE IF b = o.v THEN MapAssign(heap[b], k, v)
                        ELSE heap[b]]
        /\ call' = [op |-> "Set", o |-> o, k |-> k, v |-> v, panicked |-> FALSE]
        /\ UNCHANGED <<arch, input, held>>

\* A Remove that also empties the mapping that the removed key held.
Remove_Recursive(o, k) ==
    /\ heap' = IF o.v = NilRef THEN heap
               ELSE [b \in Addrs |->
                        IF b = o.v THEN MapDelete(heap[b], k)
                        ELSE IF Has(o, k) /\ heap[o.v][k] = MapVal(b) THEN EmptyMap
                        ELSE heap[b]]
    /\ call' = [op |-> "Remove", o |-> o, k |-> k]
    /\ UNCHANGED <<arch, input, held>>

\* func (o Object) Remove(k string): delete on a nil map does nothing.
Remove(o, k) ==
    /\ heap' = IF o.v = NilRef THEN heap
               ELSE [heap EXCEPT ![o.v] = MapDelete(@, k)]
    /\ call' = [op |-> "Remove", o |-> o, k |-> k]
    /\ UNCHANGED <<arch, input, held>>

(***************************************************************************)
(* Spec: a client that starts from make(tyson.Object) and mutates and      *)
(* reads it.                                                               *)
(***************************************************************************)
Init ==
    /\ heap = [a \in {0} |-> EmptyMap]
    /\ arch \in Archs
    /\ input = NoInput
    /\ call = NoCall
    /\ held = NoHeld

Next ==
    \/ \E o \in Objects, k \in Keys : GetCall(o, <<k>>)
    \/ \E o \in Objects \cup {NilObject}, k \in Keys : HasCall(o, k)
    \/ \E o \in Objects \cup {NilObject}, k \in Keys, v \in Scalars : Set(o, k, v)
    \/ \E o \in Objects, k \in Keys : SetLiteral(o, k)
    \/ \E o \in Objects \cup {NilObject}, k \in Keys : Remove(o, k)

Spec == Init /\ [][Next]_vars

(***************************************************************************)
(* SpecGet: Get and GetObject as functions of a decoded tree, a receiver   *)
(* and a key list, all three drawn in the initial state.  A decoded tree   *)
(* (the maps at addresses 0, 1, ...; 0 is the root) nests its maps along   *)
(* one path of keys, the map at address a + 1 inside the one at a.         *)
(***************************************************************************)
LeafMaps == UNION {[S -> Scalars] : S \in SUBSET Keys}

ChainHeaps(d) ==
    {[a \in 0..d - 1 |->
        IF a < d - 1 THEN MapAssign(f[a], c[a], MapVal(a + 1)) ELSE f[a]] :
            f \in [0..d - 1 -> LeafMaps], c \in [0..d - 2 -> Keys]}

DecodedHeaps == UNION {ChainHeaps(d) : d \in 1..MaxKeys}

InitGet ==
    /\ heap \in DecodedHeaps
    /\ arch \in Archs
    /\ input \in [o : {Root, NilObject}, keys : KeyLists]
    /\ call = NoCall
    /\ held = NoHeld

NextGet ==
    \/ GetCall(input.o, input.keys)
    \/ GetObjectCall(input.o, input.keys)

SpecGet == InitGet /\ [][NextGet]_vars

(***************************************************************************)
(* SpecNode: the methods of Node, Map, and the closures of All and One as  *)
(* functions of arguments drawn in the initial state.  The client's own    *)
(* mappers map the ints 1 and 2 to strings: every table of answers [w, ok] *)
(* is one mapper (a mapper that fails may still answer some w).            *)
(***************************************************************************)
MaxMappers == 2   \* longest list of mappers passed to One

Sources == {IntVal(1), IntVal(2)}
Answers == [w : {StringVal(""), StringVal("x"), StringVal("y")}, ok : BOOLEAN]

Funcs == {[fn |-> "func", T |-> "string", table |-> f] : f \in [Sources -> Answers]}

\* The values of type T a client puts into a Node[T], the zero value among them.
ValuesOf(T) ==
    CASE T = "string" -> {StringVal(""), StringVal("abc")}
      [] T = "int64" -> {IntVal(0), IntVal(7)}
      [] T = "any" -> {NilAny, StringVal("abc")}

NodeInputs ==
    UNION {[op : {"Node"}, ctor : {"EmptyNode", "ValueNode"}, T : {T},
            v : ValuesOf(T), d : ValuesOf(T), f : ValuesOf(T)] :
                T \in {"string", "int64", "any"}}

MapInputs ==
    [op : {"Map"}, n : {EmptyNode("int64")} \cup {ValueNode(x) : x \in Sources},
     m : Funcs]

AllInputs ==
    [op : {"All"}, m : Funcs,
     v : {SliceOf("[]int64", e) : e \in SeqsUpTo(Sources, MaxArr)}]

OneInputs == [op : {"One"}, mappers : SeqsUpTo(Funcs, MaxMappers), v : Sources]

\* The Node the client builds from a drawn input.
Built(in) == IF in.ctor = "ValueNode" THEN ValueNode(in.v) ELSE EmptyNode(in.T)

InitNode ==
    /\ heap = [a \in {0} |-> EmptyMap]
    /\ arch \in Archs
    /\ input \in NodeInputs \cup MapInputs \cup AllInputs \cup OneInputs
    /\ call = NoCall
    /\ held = NoHeld

EmptyCall ==
    /\ input.op = "Node"
    /\ call' = [op |-> "Empty", ret |-> Empty(Built(input))]
    /\ UNCHANGED <<heap, arch, input, held>>

ValueCall ==
    /\ input.op = "Node"
    /\ call' = [op |-> "Value", ret |-> Value(Built(input))]
    /\ UNCHANGED <<heap, arch, input, held>>

OrCall ==
    /\ input.op = "Node"
    /\ call' = [op |-> "Or", ret |-> Or(Built(input), input.d)]
    /\ UNCHANGED <<heap, arch, input, held>>

OrGetCall ==
    /\ input.op = "Node"
    /\ call' = [op |-> "OrGet", run |-> OrGetRun(Built(input), input.f)]
    /\ UNCHANGED <<heap, arch, input, held>>

MapCall ==
    /\ input.op = "Map"
    /\ call' = [op |-> "Map", run |-> MapRun(input.n, input.m)]
    /\ UNCHANGED <<heap, arch, input, held>>

AllCall ==
    /\ input.op = "All"
    /\ call' = [op |-> "All", run |-> Apply(All(input.m), input.v)]
    /\ UNCHANGED <<heap, arch, input, held>>

OneCall ==
    /\ input.op = "One"
    /\ call' = [op |-> "One", run |-> Apply(One(input.mappers, "string"), input.v)]
    /\ UNCHANGED <<heap, arch, input, held>>

NextNode ==
    \/ EmptyCall
    \/ ValueCall
    \/ OrCall
    \/ OrGetCall
    \/ MapCall
    \/ AllCall
    \/ OneCall

SpecNode == InitNode /\ [][NextNode]_vars

(***************************************************************************)
(* Numbers, told from their value: x counts units of 2^-FracBits.          *)
(***************************************************************************)
\* x truncated towards zero to an integer, however large.
Truncate(x) == IF x >= 0 THEN x \div Unit ELSE -((-x) \div Unit)

\* The number that the integer n is.
Number(n) == n * Unit

FitsInt64(x) == MinInt64 <= Truncate(x) /\ Truncate(x) <= MaxInt64

\* 42.0, -7.0, and the float64 next above 42.0 (for 42.01).
FortyTwo == Number(42)
MinusSeven == Number(-7)
FortyTwoAndABit == Number(42) + 1

(***************************************************************************)
(* SpecInt: AsInt as a function of a float64, and GetInt on a decoded tree *)
(* {"a": v}, with v that float64 or no number at all.                      *)
(***************************************************************************)
MaxFloat64 == (Pow2(MantBits) - 1) * Pow2(MaxExp)

Float64s == {x \in -MaxFloat64..MaxFloat64 : IsFloat64(x)}

GetIntCall(o, keys) ==
    /\ call' = [op |-> "GetInt", o |-> o, keys |-> keys, ret |-> GetInt(o, keys)]
    /\ UNCHANGED <<heap, arch, input, held>>

AsIntCall(v) ==
    /\ call' = [op |-> "AsInt", v |-> v, ret |-> AsInt(v)]
    /\ UNCHANGED <<heap, arch, input, held>>

InitInt ==
    /\ arch \in Archs
    /\ input \in [v : {FloatVal(x) : x \in Float64s}, keys : {<<"a">>, <<"b">>}]
    /\ \E v \in {input.v, StringVal("abc"), NilAny} :
            heap = [a \in {0} |-> MapAssign(EmptyMap, "a", v)]
    /\ call = NoCall
    /\ held = NoHeld

NextInt ==
    \/ AsIntCall(input.v)
    \/ GetIntCall(Root, input.keys)

SpecInt == InitInt /\ [][NextInt]_vars

(***************************************************************************)
(* SpecAccessors: the typed getters as functions of a decoded tree         *)
(* {"a": v, "b": {"a": v}} and a key list, with v any decoded value.       *)
(***************************************************************************)
\* The elements of the decoded arrays; the map at address 2 is empty.
Elems ==
    {BoolVal(TRUE), FloatVal(FortyTwo), FloatVal(FortyTwoAndABit),
     FloatVal(Number(MaxInt64 + 1)), StringVal("abc"), SliceOf("[]any", <<>>),
     MapVal(2)}

Decoded ==
    {NilAny} \cup Elems \cup {SliceOf("[]any", e) : e \in SeqsUpTo(Elems, MaxArr)}

InitAccessors ==
    /\ arch \in Archs
    /\ input \in [keys : KeyLists]
    /\ \E v \in Decoded :
            heap = [a \in 0..2 |->
                        CASE a = 0 -> MapAssign(MapAssign(EmptyMap, "a", v), "b", MapVal(1))
                          [] a = 1 -> MapAssign(EmptyMap, "a", v)
                          [] a = 2 -> EmptyMap]
    /\ call = NoCall
    /\ held = NoHeld

\* The call of a typed getter on the root with the keys drawn: op names the
\* getter and ret is what it returned.
GetterCall(op, ret) ==
    /\ call' = [op |-> op, o |-> Root, keys |-> input.keys, ret |-> ret]
    /\ UNCHANGED <<heap, arch, input, held>>

NextAccessors ==
    \/ GetterCall("GetArray", GetArray(Root, input.keys))
    \/ GetterCall("GetBool", GetBool(Root, input.keys))
    \/ GetterCall("GetFloat", GetFloat(Root, input.keys))
    \/ GetterCall("GetInt", GetInt(Root, input.keys))
    \/ GetterCall("GetObject", GetObject(Root, input.keys))
    \/ GetterCall("GetString", GetString(Root, input.keys))
    \/ GetterCall("GetArrays", GetArrays(Root, input.keys))
    \/ GetterCall("GetBools", GetBools(Root, input.keys))
    \/ GetterCall("GetFloats", GetFloats(Root, input.keys))
    \/ GetterCall("GetInts", GetInts(Root, input.keys))
    \/ GetterCall("GetObjects", GetObjects(Root, input.keys))
    \/ GetterCall("GetStrings", GetStrings(Root, input.keys))

SpecAccessors == InitAccessors /\ [][NextAccessors]_vars

(***************************************************************************)
(* The walk of a key list through a tree, told from the tree: from the map *)
(* at address a, the first key must be present; it is the target when it   *)
(* is the last key, and otherwise its value must be a mapping, from which  *)
(* the rest of the keys is walked.                                         *)
(***************************************************************************)
RECURSIVE Walk(_, _)
Walk(a, keys) ==
    LET k == Head(keys)
    IN  IF a = NilRef \/ k \notin DOMAIN heap[a]
        THEN [ok |-> FALSE, why |-> "missing key", v |-> NilAny]
        ELSE IF Len(keys) = 1
        THEN [ok |-> TRUE, why |-> "", v |-> heap[a][k]]
        ELSE IF heap[a][k].t # "map[string]any"
        THEN [ok |-> FALSE, why |-> "not a mapping", v |-> NilAny]
        ELSE Walk(heap[a][k].v, Tail(keys))

\* A value that is a JSON object, whichever Go type carries the map.
IsJSONObject(v) == v.t \in {"map[string]any", "Object"}

\* C1: Get(keys) is empty iff on the walk of keys some key is absent from
\* the current mapping or the value of a non-final key is not a mapping;
\* otherwise it is non-empty and holds the value reached (be it JSON null).
\* With no keys it is non-empty and holds the Object itself.
C1_GetWalksTheKeys ==
    call.op = "Get" =>
        LET n == call.run.node
        IN  IF call.keys = <<>>
            THEN ~Empty(n) /\ Value(n) = call.o
            ELSE LET w == Walk(call.o.v, call.keys)
                 IN  /\ Empty(n) <=> ~w.ok
                     /\ w.ok => Value(n) = w.v

\* A Get with three keys that ends at a present key whose value is JSON null.
C1_Witness ==
    /\ call.op = "Get"
    /\ Len(call.keys) = 3
    /\ ~Empty(call.run.node)
    /\ Value(call.run.node) = NilAny

\* C2 as stated: Get never panics, and a missing key, a non-mapping
\* intermediate value and the empty key list all give an empty Node.
C2_AllDegradeToEmpty ==
    call.op = "Get" =>
        /\ ~call.run.panicked
        /\ (call.keys = <<>> \/ ~Walk(call.o.v, call.keys).ok)
                => Empty(call.run.node)

\* C2, amended: Get never panics, on a nil Object either; a missing key and
\* a non-mapping intermediate value give an empty Node, and the empty key
\* list gives a non-empty Node that holds the Object.
C2_GetNeverPanics ==
    call.op = "Get" =>
        /\ ~call.run.panicked
        /\ IF call.keys = <<>>
           THEN ~Empty(call.run.node) /\ Value(call.run.node) = call.o
           ELSE Walk(call.o.v, call.keys).why \in {"missing key", "not a mapping"}
                    => Empty(call.run.node)

\* A Get of several keys on a nil Object: it returns, with an empty Node.
C2_Witness ==
    /\ call.op = "Get"
    /\ call.o = NilObject
    /\ Len(call.keys) >= 2
    /\ ~call.run.panicked
    /\ Empty(call.run.node)

\* C3: GetObject(keys) is empty only if a key does not exist or the target
\* that Get(keys) locates is not a JSON object; otherwise it is non-empty
\* and holds the target.  With no keys it is non-empty and holds o.
C3_GetObjectHoldsTarget ==
    (call.op = "GetObject" /\ call.o # NilObject) =>
        LET g == Get(call.o, call.keys)
            located == ~Empty(g) /\ IsJSONObject(Value(g))
        IN  /\ Empty(call.ret) => ~located
            /\ located => ~Empty(call.ret) /\ Value(call.ret).v = Value(g).v
            /\ call.keys = <<>> => ~Empty(call.ret) /\ Value(call.ret) = call.o

\* C4: Map(n, m) is non-empty iff n is non-empty and m succeeds on the value
\* of n, and then holds what m answered; on an empty n the result is empty
\* whatever the mapper, and the mapper is not applied.
C4_MapAppliesMapper ==
    call.op = "Map" =>
        LET n == input.n
            r == call.run
        IN  IF Empty(n)
            THEN Empty(r.node) /\ r.applied = <<>>
            ELSE LET a == input.m.table[Value(n)]
                 IN  /\ ~Empty(r.node) <=> a.ok
                     /\ a.ok => Value(r.node) = a.w

\* A Map of a non-empty Node whose mapper fails while answering a non-zero w.
C4_Witness ==
    /\ call.op = "Map"
    /\ ~Empty(input.n)
    /\ ~input.m.table[Value(input.n)].ok
    /\ input.m.table[Value(input.n)].w = StringVal("x")
    /\ Empty(call.run.node)

\* C5: All(c) succeeds on [e1..en] iff c succeeds on every element, and then
\* answers exactly [c(e1)..c(en)], of the same length and in source order;
\* if c fails on any element All(c) fails and answers nil; the empty
\* sequence succeeds with an empty sequence.
C5_AllLiftsMapper ==
    call.op = "All" =>
        LET e == input.v.v.elems
            r == call.run
            c(i) == input.m.table[e[i]]
        IN  /\ r.ok <=> \A i \in 1..Len(e) : c(i).ok
            /\ r.ok => /\ ~r.w.v.nil
                       /\ Len(r.w.v.elems) = Len(e)
                       /\ \A i \in 1..Len(e) : r.w.v.elems[i] = c(i).w
            /\ ~r.ok => r.w.v.nil /\ r.w.v.elems = <<>>
            /\ r.w.t = "[]string"

\* An All whose mapper succeeds on the first element and fails on the second.
C5_Witness ==
    /\ call.op = "All"
    /\ Len(input.v.v.elems) = 2
    /\ input.m.table[input.v.v.elems[1]].ok
    /\ ~call.run.ok

\* C6: One(c1..cn)(v) succeeds iff some ci succeeds on v, and then answers
\* the result of the lowest-indexed ci that succeeds; the mappers listed
\* after that one are not applied; it fails iff all fail, as with no mapper.
C6_OneFirstWins ==
    call.op = "One" =>
        LET ms == input.mappers
            r == call.run
            c(i) == ms[i].table[input.v]
            winners == {i \in 1..Len(ms) : c(i).ok}
        IN  /\ r.ok <=> winners # {}
            /\ winners # {} =>
                    LET j == CHOOSE i \in winners : \A h \in winners : i <= h
                    IN  /\ r.w = c(j).w
                        /\ r.applied = [i \in 1..j |-> i]
            /\ winners = {} => r.applied = [i \in 1..Len(ms) |-> i]

\* A One of two mappers that both succeed, with different results.
C6_Witness ==
    /\ call.op = "One"
    /\ Len(input.mappers) = 2
    /\ input.mappers[1].table[input.v].ok
    /\ input.mappers[2].table[input.v].ok
    /\ input.mappers[1].table[input.v].w # input.mappers[2].table[input.v].w
    /\ call.run.ok

\* C7: a Node built by ValueNode(v) reports Empty() = false and answers v to
\* Value(), Or(d) and OrGet(f), without invoking f; a Node built by
\* EmptyNode reports Empty() = true, answers the zero value of T to Value()
\* and d to Or(d), and OrGet(f) invokes f exactly once and answers its result.
C7_NodeMethods ==
    LET holds == input.ctor = "ValueNode"
        zero == CASE input.T = "string" -> StringVal("")
                  [] input.T = "int64" -> IntVal(0)
                  [] input.T = "any" -> NilAny
    IN  /\ call.op = "Empty" => call.ret = ~holds
        /\ call.op = "Value" => call.ret = IF holds THEN input.v ELSE zero
        /\ call.op = "Or" => call.ret = IF holds THEN input.v ELSE input.d
        /\ call.op = "OrGet" =>
                /\ call.run.ret = IF holds THEN input.v ELSE input.f
                /\ call.run.invoked = IF holds THEN 0 ELSE 1

\* An OrGet on a Node that holds a value other than the supplier's.
C7_Witness ==
    /\ call.op = "OrGet"
    /\ input.ctor = "ValueNode"
    /\ input.f # input.v
    /\ call.run.invoked = 0

\* C8: for every number x, AsInt(x) succeeds iff truncating x to an integer
\* (an int64) and converting back gives x again, and then yields
\* truncate(x): 42.0 gives 42, -7.0 gives -7 and 42.01 fails; GetInt(keys)
\* is non-empty iff the target is a number on which AsInt succeeds.
C8_IntegralRoundTrip ==
    /\ call.op = "AsInt" =>
            LET x == call.v.v
            IN  /\ call.ret.ok <=> (FitsInt64(x) /\ Number(Truncate(x)) = x)
                /\ call.ret.ok => call.ret.w = IntVal(Truncate(x))
                /\ x = FortyTwo => call.ret = [w |-> IntVal(42), ok |-> TRUE]
                /\ x = MinusSeven => call.ret = [w |-> IntVal(-7), ok |-> TRUE]
                /\ x = FortyTwoAndABit => ~call.ret.ok
    /\ call.op = "GetInt" =>
            LET g == Get(call.o, call.keys)
            IN  ~Empty(call.ret) <=>
                    /\ ~Empty(g)
                    /\ Value(g).t = "float64"
                    /\ FitsInt64(Value(g).v)
                    /\ Number(Truncate(Value(g).v)) = Value(g).v

\* Whether AsInt succeeds on x: within the range of int64, iff x has no
\* fractional part; outside it only in the build whose conversion saturates,
\* and there only on MaxInt64 + 1, the float64 that MaxInt64 rounds to.
Integral(x) ==
    IF FitsInt64(x) THEN Number(Truncate(x)) = x
    ELSE arch = "saturating" /\ x = Number(MaxInt64 + 1)

(***************************************************************************)
(* The typed getters, told from the target of the walk.                    *)
(***************************************************************************)
\* The target of keys from o: whether the walk reaches one, and its value.
Located(o, keys) ==
    IF keys = <<>> THEN [ok |-> TRUE, v |-> o]
    ELSE [ok |-> Walk(o.v, keys).ok, v |-> Walk(o.v, keys).v]

\* Whether the decoded value v has the shape T, and v as a value of type T.
HasShape(v, T) ==
    CASE T = "int64" -> v.t = "float64" /\ Integral(v.v)
      [] T = "Object" -> v.t = "map[string]any"
      [] OTHER -> v.t = T

Typed(v, T) ==
    CASE T = "int64" -> IntVal(IF FitsInt64(v.v) THEN Truncate(v.v) ELSE MaxInt64)
      [] T = "Object" -> ObjectVal(v.v)
      [] OTHER -> v

ScalarGetters ==
    [GetArray |-> "[]any", GetBool |-> "bool", GetFloat |-> "float64",
     GetInt |-> "int64", GetObject |-> "Object", GetString |-> "string"]

ArrayGetters ==
    [GetArrays |-> "[]any", GetBools |-> "bool", GetFloats |-> "float64",
     GetInts |-> "int64", GetObjects |-> "Object", GetStrings |-> "string"]

Entry(h, a, k) ==
    IF k \in DOMAIN h[a] THEN [present |-> TRUE, v |-> h[a][k]]
    ELSE [present |-> FALSE, v |-> NilAny]

\* What the step does to the maps besides the entry k of the map at address
\* a: nothing, but for the empty map that a map literal just allocated.
OnlyEntryChanges(a, k) ==
    /\ DOMAIN heap \subseteq DOMAIN heap'
    /\ \A b \in DOMAIN heap, j \in Keys :
            <<b, j>> # <<a, k>> => Entry(heap', b, j) = Entry(heap, b, j)
    /\ \A b \in DOMAIN heap' \ DOMAIN heap :
            call'.op = "Set" /\ call'.v = MapVal(b) /\ heap'[b] = EmptyMap

\* C10: in every step of a sequence of Sets and Removes on Objects, Set(k, v)
\* makes k present with the value v, be k new or present before (so Has(k)
\* and Get(k) tell the most recent Set of k not yet removed); Remove(k)
\* makes k absent, and changes nothing when k is absent already; either
\* changes only the entry k of the mapping it is called on, and no other key
\* of it nor any entry of another (nested) mapping; Has and Get change
\* nothing and tell the entry as it is.
C10_SetRemoveFrame ==
    [][\A o \in Objects \cup {NilObject}, k \in Keys :
        /\ (call'.op = "Set" /\ call'.o = o /\ call'.k = k /\ ~call'.panicked) =>
                /\ Has(o, k)'
                /\ get(o, k)' = ValueNode(call'.v)
                /\ OnlyEntryChanges(o.v, k)
        /\ (call'.op = "Remove" /\ call'.o = o /\ call'.k = k /\ o # NilObject) =>
                /\ ~Has(o, k)'
                /\ Empty(get(o, k)')
                /\ OnlyEntryChanges(o.v, k)
                /\ ~Has(o, k) => heap' = heap
        /\ (call'.op = "Set" /\ call'.panicked) =>
                call'.o = NilObject /\ heap' = heap
        /\ (call'.op = "Remove" /\ call'.o = NilObject) => heap' = heap
        /\ (call'.op = "Has" /\ call'.o = o /\ call'.k = k) =>
                /\ heap' = heap
                /\ call'.ret = (o # NilObject /\ Entry(heap, o.v, k).present)
        /\ (call'.op = "Get" /\ call'.o = o /\ call'.keys = <<k>>) =>
                /\ heap' = heap
                /\ ~Empty(call'.run.node) <=> Entry(heap, o.v, k).present
                /\ ~Empty(call'.run.node) =>
                        Value(call'.run.node) = Entry(heap, o.v, k).v
      ]_vars

\* After a Remove on the root: the key is gone, the other key of the root is
\* still there, and a mapping once nested in the root still has an entry.
C10_Witness ==
    /\ call.op = "Remove"
    /\ call.o = Root
    /\ DOMAIN heap[0] = Keys \ {call.k}
    /\ 1 \in DOMAIN heap
    /\ DOMAIN heap[1] # {}

(***************************************************************************)
(* SpecHeld: a client that decodes a tree {.., c: {..}} of two maps, keeps *)
(* one Node that a getter returned, and then sets and removes keys of the  *)
(* root and of the nested map.                                             *)
(***************************************************************************)
\* The content of the map that v refers to, if v is a map at all.
Content(v) ==
    IF v.t \in {"map[string]any", "Object"} /\ v.v # NilRef THEN heap[v.v]
    ELSE EmptyMap

\* What the client sees through the Node n: n.Empty(), n.Value(), and the
\* entries of the value when it is a map.
Seen(n) == [empty |-> Empty(n), value |-> Value(n), content |-> Content(Value(n))]

\* n := o.<by>(keys...), kept by the client.
Hold(by, o, keys, n) ==
    /\ held = NoHeld
    /\ held' = [by |-> by, o |-> o, keys |-> keys, node |-> n, first |-> Seen(n)]
    /\ call' = [op |-> by, o |-> o, keys |-> keys]
    /\ UNCHANGED <<heap, arch, input>>

InitHeld ==
    /\ heap \in ChainHeaps(2)
    /\ arch \in Archs
    /\ input = NoInput
    /\ call = NoCall
    /\ held = NoHeld

NextHeld ==
    \/ \E keys \in SeqsUpTo(Keys, 1) : Hold("Get", Root, keys, Get(Root, keys))
    \/ \E k \in Keys : Hold("GetObject", Root, <<k>>, GetObject(Root, <<k>>))
    \/ \E k \in Keys : Hold("GetString", Root, <<k>>, GetString(Root, <<k>>))
    \/ \E o \in Objects, k \in Keys, v \in Scalars : Set(o, k, v)
    \/ \E o \in Objects, k \in Keys : Remove(o, k)

SpecHeld == InitHeld /\ [][NextHeld]_vars

\* C11 as stated: once a getter has returned a Node, after any later Sets
\* and Removes on the root or on nested mappings, its Empty() and the value
\* seen through its Value() are as they were right after its construction.
C11_NodeShowsTheSame ==
    held # NoHeld => Seen(held.node) = held.first

\* C11, amended: once a getter has returned a Node, its Empty() and the
\* value that Value() returns never change: the same scalar, or the same
\* reference to the same mapping of the tree.  A Node that holds a scalar
\* shows the same for ever.  A Node that holds a mapping is no copy of it:
\* the entries seen through Value() change with a later Set(k, v) or
\* Remove(k) on that very mapping, in the entry k only, and with no Set or
\* Remove on any other mapping.
C11_NodeKeepsItsReference ==
    [][(held # NoHeld /\ held' = held) =>
        /\ Seen(held.node)'.empty = held.first.empty
        /\ Seen(held.node)'.value = held.first.value
        /\ held.first.value.t \notin {"map[string]any", "Object"}
                => Seen(held.node)' = held.first
        /\ Seen(held.node)' # Seen(held.node) =>
                /\ call'.op \in {"Set", "Remove"}
                /\ call'.o.v = held.first.value.v
                /\ held.first.value.t \in {"map[string]any", "Object"}
                /\ \A j \in Keys \ {call'.k} :
                        Entry(heap', call'.o.v, j) = Entry(heap, call'.o.v, j)
      ]_vars

\* A Node that GetObject returned for a nested mapping, after a Set on that
\* mapping: it shows an entry that it did not show when it was returned.
C11_Witness ==
    /\ held # NoHeld
    /\ held.by = "GetObject"
    /\ ~Empty(held.node)
    /\ call.op = "Set"
    /\ call.o.v = Value(held.node).v
    /\ Seen(held.node).content # held.first.content

(***************************************************************************)
(* The order of the map reads of a Get, told from the tree.                *)
(***************************************************************************)
\* The mappings that the non-final keys of keys resolve to, one after the
\* other from the map at address a on, up to the first non-final key that
\* is missing or whose value is not a mapping.
RECURSIVE Reached(_, _)
Reached(a, keys) ==
    IF Len(keys) <= 1 THEN <<a>>
    ELSE IF /\ a # NilRef
            /\ Head(keys) \in DOMAIN heap[a]
            /\ heap[a][Head(keys)].t = "map[string]any"
    THEN <<a>> \o Reached(heap[a][Head(keys)].v, Tail(keys))
    ELSE <<a>>

\* C12: a Get with two or more keys reads the keys from left to right, key
\* j in the mapping that key j - 1 resolved to.  At the first non-final key
\* that is missing or whose value is not a mapping it stops: the result is
\* empty, no key after the failing one is read, and nothing is read in a
\* value that is not a mapping (what is read after the failing key is the
\* failing key again, in the nil Object).  Only when every non-final key
\* resolved to a mapping is the final key read, in the last mapping
\* reached, and the result is what that read finds.
C12_StopsAtFirstFailure ==
    (call.op = "Get" /\ Len(call.keys) >= 2) =>
        LET keys == call.keys
            r == Reached(call.o.v, keys)
            g == Len(r)
            L == call.run.looked
        IN  /\ Len(L) >= g
            /\ \A j \in 1..g : L[j] = <<r[j], keys[j]>>
            /\ g < Len(keys) =>
                    /\ Empty(call.run.node)
                    /\ \A j \in g + 1..Len(L) : L[j] = <<NilRef, keys[g]>>
            /\ g = Len(keys) =>
                    /\ Len(L) = Len(keys)
                    /\ Empty(call.run.node) <=> ~Entry(heap, r[g], keys[g]).present
                    /\ ~Empty(call.run.node) =>
                            Value(call.run.node) = Entry(heap, r[g], keys[g]).v

\* A Get of three keys whose first key is present with a value that is not
\* a mapping: the second key is another one, and only the first is read.
C12_Witness ==
    /\ call.op = "Get"
    /\ Len(call.keys) = 3
    /\ Has(call.o, call.keys[1])
    /\ Len(Reached(call.o.v, call.keys)) = 1
    /\ call.keys[2] # call.keys[1]
    /\ Empty(call.run.node)
    /\ \A j \in 1..Len(call.run.looked) : call.run.looked[j][2] = call.keys[1]

====
